---- MODULE Spec2Model ----
(***************************************************************************)
(* Model of the Groq API forwarding proxy (src/groq.ts).                   *)
(*                                                                         *)
(* One connection is followed at a time, from the moment the listener      *)
(* hands the request to mainHandler until the connection is finished.  The *)
(* handler keeps no state between requests; the model remembers, from one  *)
(* request to the next, only how many requests were served and which       *)
(* outbound call the last one made.                                        *)
(*                                                                         *)
(* Header collections are header lists (sequences of <<name, value>>)      *)
(* with the operations of the Fetch Headers class the source calls:        *)
(* entries() (sort and combine), set(), get().  An absent value (a null    *)
(* body, a missing header, a missing error message) is the empty           *)
(* sequence <<>>, a present one is a one-element sequence.                 *)
(***************************************************************************)
EXTENDS Naturals, Sequences, FiniteSets, TLC

\* ------------------------------------------------------------- bounds ---
\* Longest inbound header list that is enumerated.
MaxHeaders == 2
\* Number of inbound requests followed in one behaviour.
MaxRequests == 2

\* ------------------------------------------------------ configuration ---
\* CONFIG.port
ConfigPort == 8080
\* CONFIG.logRequests
ConfigLogRequests == TRUE
\* CONFIG.groqApiEndpoint
GroqApiEndpoint == "https://api.groq.com"

\* ------------------------------------------------------------ strings ---
\* String.prototype.toLowerCase on the header names that occur in the model.
ToLowerCase(s) ==
  CASE s = "Host" -> "host"
    [] s = "HOST" -> "host"
    [] s = "Accept" -> "accept"
    [] s = "Set-Cookie" -> "set-cookie"
    [] s = "Content-Type" -> "content-type"
    [] s = "Access-Control-Allow-Origin" -> "access-control-allow-origin"
    [] s = "Access-Control-Allow-Methods" -> "access-control-allow-methods"
    [] s = "Access-Control-Allow-Headers" -> "access-control-allow-headers"
    [] s = "Access-Control-Max-Age" -> "access-control-max-age"
    [] OTHER -> s

\* The lower-case header names of the model in the byte order entries() sorts by.
SortedNames ==
  << "accept", "access-control-allow-headers", "access-control-allow-methods",
     "access-control-allow-origin", "access-control-max-age", "content-type",
     "host", "set-cookie" >>

RECURSIVE JoinWith(_, _)
\* Array.prototype.join: the strings of parts with sep between them.
JoinWith(parts, sep) ==
  IF parts = <<>> THEN ""
  ELSE IF Len(parts) = 1 THEN parts[1]
  ELSE parts[1] \o sep \o JoinWith(Tail(parts), sep)

\* ------------------------------------------------------------ Headers ---
\* The values a header list holds for a (lower-case) name, in list order.
ValuesOf(list, lname) ==
  LET hits == SelectSeq(list, LAMBDA h : ToLowerCase(h[1]) = lname)
  IN  [i \in 1..Len(hits) |-> hits[i][2]]

\* Headers.prototype.get: the values for the name combined with ", ", or null.
HeadersGet(list, name) ==
  LET vs == ValuesOf(list, ToLowerCase(name))
  IN  IF vs = <<>> THEN <<>> ELSE << JoinWith(vs, ", ") >>

\* Headers.prototype.has
HeadersHas(list, name) == ValuesOf(list, ToLowerCase(name)) # <<>>

RECURSIVE EntriesFrom(_, _)
\* Headers.prototype.entries from the i-th sorted name on: names lower-cased
\* and sorted, the values of one name combined, except set-cookie whose
\* values are yielded one by one.
EntriesFrom(list, i) ==
  IF i > Len(SortedNames) THEN <<>>
  ELSE LET n  == SortedNames[i]
           vs == ValuesOf(list, n)
           here == IF vs = <<>> THEN <<>>
                   ELSE IF n = "set-cookie"
                        THEN [k \in 1..Len(vs) |-> <<n, vs[k]>>]
                        ELSE << <<n, JoinWith(vs, ", ")>> >>
       IN  here \o EntriesFrom(list, i + 1)

\* request.headers.entries()
HeadersEntries(list) == EntriesFrom(list, 1)

\* Headers.prototype.set: the first header of that name takes the value and
\* the others of that name are removed; a new name is appended.
HeadersSet(list, name, value) ==
  LET ln == ToLowerCase(name)
      first == CHOOSE i \in 1..Len(list) :
                 /\ ToLowerCase(list[i][1]) = ln
                 /\ \A j \in 1..(i - 1) : ToLowerCase(list[j][1]) # ln
      kept == SelectSeq([i \in 1..Len(list) |-> <<i, list[i]>>],
                        LAMBDA p : ToLowerCase(p[2][1]) # ln \/ p[1] = first)
  IN  IF ~HeadersHas(list, name) THEN Append(list, <<name, value>>)
      ELSE [k \in 1..Len(kept) |->
              IF kept[k][1] = first THEN <<kept[k][2][1], value>> ELSE kept[k][2]]

\* Headers.prototype.append
HeadersAppend(list, name, value) == Append(list, <<name, value>>)

RECURSIVE FillHeaders(_, _)
\* new Headers(init) for a Headers init: every entry of init is appended.
FillHeaders(acc, entries) ==
  IF entries = <<>> THEN acc
  ELSE FillHeaders(HeadersAppend(acc, entries[1][1], entries[1][2]), Tail(entries))

\* new Headers(response.headers)
NewHeadersFrom(list) == FillHeaders(<<>>, HeadersEntries(list))

\* ---------------------------------------------------------------- URL ---
\* The request targets the listener can hand over as request.url: an
\* origin-form target made absolute ("http://host/path?query"), the
\* asterisk form of OPTIONS ("*"), the authority form of CONNECT
\* ("127.0.0.1:443").  segs are the raw path segments between the slashes.
OriginUrl(segs, hasQuery, query) ==
  [form |-> "origin", segs |-> segs, hasQuery |-> hasQuery, query |-> query]
AsteriskUrl == [form |-> "asterisk", segs |-> <<>>, hasQuery |-> FALSE, query |-> ""]
AuthorityUrl == [form |-> "authority", segs |-> <<>>, hasQuery |-> FALSE, query |-> ""]

\* new URL(request.url) throws a TypeError unless the string is an absolute URL.
UrlParseThrows(url) == url.form # "origin"

RECURSIVE ParsePath(_, _)
\* The URL parser's path state: "." segments are dropped, ".." removes the
\* segment before it, and a dot segment at the end leaves an empty segment.
ParsePath(segs, acc) ==
  IF segs = <<>> THEN acc
  ELSE LET s == Head(segs)
           last == Len(segs) = 1
           popped == IF acc = <<>> THEN acc ELSE SubSeq(acc, 1, Len(acc) - 1)
       IN  IF s = ".." THEN ParsePath(Tail(segs), IF last THEN Append(popped, "") ELSE popped)
           ELSE IF s = "." THEN ParsePath(Tail(segs), IF last THEN Append(acc, "") ELSE acc)
           ELSE ParsePath(Tail(segs), Append(acc, s))

\* url.pathname
UrlPathname(url) == "/" \o JoinWith(ParsePath(url.segs, <<>>), "/")

\* url.search: "?" and the query, or the empty string when the query is empty.
UrlSearch(url) == IF url.hasQuery /\ url.query # "" THEN "?" \o url.query ELSE ""

\* ------------------------------------------------------------ Response ---
\* Statuses whose responses have a null body.
NullBodyStatus == {101, 204, 205, 304}

\* The RangeError / TypeError the Response constructor throws, if it throws:
\* the status must be 101 or within 200..599, and a null-body status takes
\* no body.
ResponseCtorError(body, status) ==
  IF status # 101 /\ (status < 200 \/ status > 599)
  THEN << [message |-> << "The status provided is outside the range [200, 599]" >>] >>
  ELSE IF body # <<>> /\ status \in NullBodyStatus
  THEN << [message |-> << "Response with null body status cannot have body" >>] >>
  ELSE <<>>

\* new Response(body, {status, statusText, headers})
NewResponse(body, status, statusText, headers) ==
  [status |-> status, statusText |-> statusText, headers |-> headers, body |-> body]

\* ------------------------------------------------------ handleRequest ---
\* Mutant of IsLandingPath: only the root path is the landing page.
IsLandingPathRootOnly(pathname) == pathname = "/"

\* pathname === '/' || pathname === '/index.html'
IsLandingPath(pathname) == pathname = "/" \/ pathname = "/index.html"

\* The static page of the root path.
LandingResponse ==
  NewResponse(<< "<h1>Groq API Proxy is Running!</h1>" >>, 200, "",
              << <<"Content-Type", "text/html; charset=utf-8">> >>)

\* Mutant of TargetUrl: "?" and the query are appended even when there is none.
TargetUrlAlwaysQuery(url) == GroqApiEndpoint \o UrlPathname(url) \o "?" \o url.query

\* `${CONFIG.groqApiEndpoint}${pathname}${url.search}`
TargetUrl(url) == GroqApiEndpoint \o UrlPathname(url) \o UrlSearch(url)

RECURSIVE CopyEntries(_, _)
\* The loop over request.headers.entries(): every entry but host is set().
CopyEntries(acc, entries) ==
  IF entries = <<>> THEN acc
  ELSE LET key == entries[1][1]
           value == entries[1][2]
       IN  CopyEntries(IF ToLowerCase(key) # "host" THEN HeadersSet(acc, key, value) ELSE acc,
                       Tail(entries))

\* The headers of the outbound request.
OutboundHeaders(reqHeaders) == CopyEntries(<<>>, HeadersEntries(reqHeaders))

\* Mutant of OutboundBody: only GET is left without the body.
OutboundBodyGetOnly(method, body) == IF method # "GET" THEN body ELSE <<>>

\* fetchOptions.body: request.body unless the method is GET or HEAD.
OutboundBody(method, body) == IF method \notin {"GET", "HEAD"} THEN body ELSE <<>>

\* The call fetch(targetUrl, fetchOptions).
OutboundCall(req) ==
  [target |-> TargetUrl(req.url), method |-> req.method,
   headers |-> OutboundHeaders(req.headers),
   body |-> OutboundBody(req.method, req.body), redirect |-> "follow"]

\* Mutant of WithCorsHeaders: the three headers are appended, not set.
WithCorsHeadersAppended(headers) ==
  HeadersAppend(HeadersAppend(HeadersAppend(headers,
    "Access-Control-Allow-Origin", "*"),
    "Access-Control-Allow-Methods", "GET, POST, PUT, DELETE, OPTIONS"),
    "Access-Control-Allow-Headers", "*")

\* The three CORS headers set on the copy of the upstream's headers.
WithCorsHeaders(headers) ==
  HeadersSet(HeadersSet(HeadersSet(headers,
    "Access-Control-Allow-Origin", "*"),
    "Access-Control-Allow-Methods", "GET, POST, PUT, DELETE, OPTIONS"),
    "Access-Control-Allow-Headers", "*")

\* The response built from the upstream's response.
PassThroughResponse(up) ==
  NewResponse(up.body, up.status, up.statusText, WithCorsHeaders(NewHeadersFrom(up.headers)))

\* Mutant of ErrorMessage: no fallback for an empty or missing message.
ErrorMessageNoFallback(err) == IF err.message = <<>> THEN "undefined" ELSE err.message[1]

\* error.message || 'Unknown error'
ErrorMessage(err) ==
  IF err.message = <<>> \/ err.message = << "" >> THEN "Unknown error" ELSE err.message[1]

\* The response of the catch block.
ProxyErrorResponse(err) ==
  NewResponse(<< "Proxy Error: " \o ErrorMessage(err) >>, 500, "",
              << <<"Content-Type", "text/plain">>, <<"Access-Control-Allow-Origin", "*">> >>)

\* ------------------------------------------------------ handleOptions ---
handleOptions(req) ==
  NewResponse(<<>>, 204, "",
              << <<"Access-Control-Allow-Origin", "*">>,
                 <<"Access-Control-Allow-Methods", "GET, POST, PUT, DELETE, OPTIONS">>,
                 <<"Access-Control-Allow-Headers", "*">>,
                 <<"Access-Control-Max-Age", "86400">> >>)

\* -------------------------------------------------------- mainHandler ---
\* Mutant of Route: the method is looked at after the path.
RoutePathFirst(req) ==
  IF UrlParseThrows(req.url) THEN "throws"
  ELSE IF IsLandingPath(UrlPathname(req.url)) THEN "landing"
  ELSE IF req.method = "OPTIONS" THEN "options"
  ELSE "forward"

\* The branch a request takes: "options", "throws" (new URL throws before
\* the try block), "landing" or "forward".
Route(req) ==
  IF req.method = "OPTIONS" THEN "options"
  ELSE IF UrlParseThrows(req.url) THEN "throws"
  ELSE IF IsLandingPath(UrlPathname(req.url)) THEN "landing"
  ELSE "forward"

\* ------------------------------------------------------------- inputs ---
\* Inbound headers the clients of the model send.
HeaderPool ==
  { <<"HOST", "proxy.local:8080">>, <<"Accept", "application/json">>,
    <<"Set-Cookie", "sid=1">>, <<"Set-Cookie", "theme=dark">> }

\* Inbound header lists, duplicates included, up to MaxHeaders long.
HeaderLists == UNION { [1..n -> HeaderPool] : n \in 0..MaxHeaders }

\* Raw request paths: "/", "/index.html", "/v1/models", "/v1/..",
\* "/v1/../index.html", "/./v1".
RawPaths ==
  { << "" >>, << "index.html" >>, << "v1", "models" >>, << "v1", ".." >>,
    << "v1", "..", "index.html" >>, << ".", "v1" >> }

\* Origin-form targets: without "?", with an empty query, with a query.
OriginUrls ==
  { OriginUrl(p, q[1], q[2]) :
      p \in RawPaths, q \in { <<FALSE, "">>, <<TRUE, "">>, <<TRUE, "limit=1">> } }

\* Inbound bodies: none, or a stream of bytes.
Bodies == { <<>>, << "{prompt}" >> }

\* The inbound requests the listener dispatches.
Requests ==
  [method : {"GET", "HEAD", "POST", "DELETE"}, url : OriginUrls,
   headers : HeaderLists, body : Bodies]
  \cup [method : {"OPTIONS"}, url : OriginUrls \cup {AsteriskUrl},
        headers : HeaderLists, body : Bodies]
  \cup [method : {"CONNECT"}, url : {AuthorityUrl}, headers : HeaderLists, body : {<<>>}]

\* What the upstream can answer an outbound call with.
UpstreamResponses ==
  { [status |-> 200, statusText |-> "OK",
     headers |-> << <<"Content-Type", "application/json">> >>, body |-> << "{models}" >>],
    [status |-> 200, statusText |-> "OK",
     headers |-> << <<"Access-Control-Allow-Origin", "https://upstream.example">>,
                    <<"access-control-allow-methods", "GET">>,
                    <<"Set-Cookie", "a=1">>, <<"Set-Cookie", "b=2">> >>,
     body |-> << "{models}" >>],
    [status |-> 204, statusText |-> "No Content", headers |-> <<>>, body |-> <<>>],
    [status |-> 304, statusText |-> "Not Modified", headers |-> <<>>, body |-> <<>>],
    [status |-> 429, statusText |-> "Too Many Requests",
     headers |-> << <<"Content-Type", "application/json">>,
                    <<"Access-Control-Allow-Headers", "authorization">> >>,
     body |-> << "{rate_limit_exceeded}" >>],
    [status |-> 500, statusText |-> "Internal Server Error",
     headers |-> << <<"Content-Type", "text/plain">> >>, body |-> << "Proxy Error: upstream" >>],
    [status |-> 999, statusText |-> "Request denied", headers |-> <<>>,
     body |-> << "denied" >>] }

\* The response fetch resolves with: the response to a HEAD request and a
\* response with a null-body status have no body.
FetchResponse(method, up) ==
  IF method = "HEAD" \/ up.status \in NullBodyStatus THEN [up EXCEPT !.body = <<>>] ELSE up

\* The reasons fetch rejects with: an error with a message, with an empty
\* message, without a message.
FetchErrors ==
  { [message |-> << "error sending request: connection refused" >>],
    [message |-> << "" >>], [message |-> <<>>] }

\* -------------------------------------------------------------- state ---
VARIABLES
  pc,          \* where the handler of the connection is: "idle" (no connection),
               \* "awaiting" (suspended at await fetch), "responded" (its promise
               \* resolved with a response), "rejected" (its promise rejected)
  request,     \* the request of the connection
  calls,       \* the outbound calls made for this request, in order
  fetchState,  \* of the outbound call: "none", "pending", "streaming" (its body
               \* passes through), "unread" (resolved, body never read), "failed",
               \* "cancelled"
  upstream,    \* the response fetch resolved with, if it did
  fetchError,  \* the reason fetch rejected with, if it did
  response,    \* the response mainHandler's promise resolved with, if it did
  clientGone,  \* the client closed the connection before it was finished
  log,         \* the console lines written for this request
  handled,     \* requests dispatched so far
  previous,    \* while idle: the method and target of the outbound call made
               \* for the last request, if one was made
  repeated     \* an outbound call was made for this request and one with the
               \* same method and target was made for the request before it

vars ==
  << pc, request, calls, fetchState, upstream, fetchError, response, clientGone,
     log, handled, previous, repeated >>

Init ==
  /\ pc = "idle"
  /\ request = <<>>
  /\ calls = <<>>
  /\ fetchState = "none"
  /\ upstream = <<>>
  /\ fetchError = <<>>
  /\ response = <<>>
  /\ clientGone = FALSE
  /\ log = <<>>
  /\ handled = 0
  /\ previous = <<>>
  /\ repeated = FALSE

\* mainHandler on a request: it runs up to its return or up to the await of
\* fetch.
MainHandler(req) ==
  /\ request' = << req >>
  /\ previous' = <<>>
  /\ handled' = handled + 1
  /\ clientGone' = FALSE
  /\ upstream' = <<>>
  /\ fetchError' = <<>>
  /\ LET route == Route(req)
         made == IF route = "forward" THEN << OutboundCall(req) >> ELSE <<>>
     IN  /\ pc' = CASE route = "forward" -> "awaiting"
                    [] route = "throws" -> "rejected"
                    [] OTHER -> "responded"
         /\ response' = CASE route = "options" -> << handleOptions(req) >>
                          [] route = "landing" -> << LandingResponse >>
                          [] OTHER -> <<>>
         /\ calls' = made
         /\ repeated' = /\ made # <<>>
                         /\ previous = << [method |-> made[1].method,
                                           target |-> made[1].target] >>
         /\ fetchState' = IF route = "forward" THEN "pending" ELSE "none"
         /\ log' = IF route = "forward" /\ ConfigLogRequests THEN << "request" >> ELSE <<>>

\* fetch resolves with the upstream's response and the handler resumes: it
\* builds the response, or lands in the catch block when building it throws.
FetchResolves(up) ==
  /\ pc = "awaiting"
  /\ LET got == FetchResponse(request[1].method, up)
         thrown == ResponseCtorError(got.body, got.status)
     IN  /\ upstream' = << got >>
         /\ response' = IF thrown = <<>> THEN << PassThroughResponse(got) >>
                        ELSE << ProxyErrorResponse(thrown[1]) >>
         /\ fetchState' = IF thrown = <<>> THEN "streaming" ELSE "unread"
         /\ log' = IF thrown = <<>> THEN log ELSE Append(log, "error")
  /\ pc' = "responded"
  /\ UNCHANGED << request, calls, fetchError, clientGone, handled, previous,
                  repeated >>

\* fetch rejects and the handler resumes in the catch block.
FetchRejects(err) ==
  /\ pc = "awaiting"
  /\ fetchError' = << err >>
  /\ response' = << ProxyErrorResponse(err) >>
  /\ fetchState' = "failed"
  /\ log' = Append(log, "error")
  /\ pc' = "responded"
  /\ UNCHANGED << request, calls, upstream, clientGone, handled, previous,
                  repeated >>

\* The client closes the connection.  No signal is passed to fetch, so a
\* pending call goes on; a response body being streamed to the client is
\* cancelled by the listener, and with it the upstream's body it is.
ClientDisconnects ==
  /\ pc \in {"awaiting", "responded"}
  /\ ~clientGone
  /\ clientGone' = TRUE
  /\ fetchState' = IF pc = "responded" /\ fetchState = "streaming" THEN "cancelled"
                   ELSE fetchState
  /\ UNCHANGED << pc, request, calls, upstream, fetchError, response, log, handled,
                  previous, repeated >>

\* The listener finishes the connection: the response has been written, or
\* the rejection has been answered by the listener's own error handler.
ConnectionDone ==
  /\ pc \in {"responded", "rejected"}
  /\ pc' = "idle"
  /\ previous' = IF calls = <<>> THEN <<>>
                  ELSE << [method |-> calls[1].method, target |-> calls[1].target] >>
  /\ request' = <<>>
  /\ calls' = <<>>
  /\ fetchState' = "none"
  /\ upstream' = <<>>
  /\ fetchError' = <<>>
  /\ response' = <<>>
  /\ clientGone' = FALSE
  /\ log' = <<>>
  /\ repeated' = FALSE
  /\ UNCHANGED handled

\* The listener accepts a connection and dispatches its request.
Serve ==
  /\ pc = "idle"
  /\ handled < MaxRequests
  /\ \E req \in Requests : MainHandler(req)

Next ==
  \/ Serve
  \/ \E up \in UpstreamResponses : FetchResolves(up)
  \/ \E err \in FetchErrors : FetchRejects(err)
  \/ ClientDisconnects
  \/ ConnectionDone

Spec == Init /\ [][Next]_vars

\* The listener finishes a connection whose handler has settled.  While the
\* handler is suspended at await fetch only the upstream (FetchResolves,
\* FetchRejects) and the client can move, and nothing in the code makes the
\* upstream answer: fetch is given no timeout.
FairSpec == Spec /\ WF_vars(ConnectionDone)

\* ============================================================ claims ===
\* The request of the connection.
Req == request[1]

\* The path of the request as the handler reads it (url.pathname).
ReqPath == UrlPathname(Req.url)

\* A request is being handled and its URL is an absolute URL.
Handling == pc # "idle" /\ Req.url.form = "origin"

\* The request is one to forward: not OPTIONS, path not "/" or "/index.html".
ForwardedRequest ==
  Handling /\ Req.method # "OPTIONS" /\ ReqPath \notin {"/", "/index.html"}

\* The names of the three CORS headers of a forwarded response.
CorsNames ==
  { "access-control-allow-origin", "access-control-allow-methods",
    "access-control-allow-headers" }

\* The header names of the model.
AllNames == { SortedNames[i] : i \in 1..Len(SortedNames) }

\* C1: mainHandler never throws and its promise never rejects, whatever
\* fails while the request is handled.
C1_NeverRejects == pc # "rejected"

\* C2: an OPTIONS request, whatever its target, headers and body, is answered
\* 204 with an empty body and exactly the four preflight headers, and no
\* outbound call is made.
C2_OptionsPreflight ==
  (pc # "idle" /\ Req.method = "OPTIONS") =>
    /\ pc = "responded"
    /\ response =
         << [status |-> 204, statusText |-> "", body |-> <<>>,
             headers |->
               << <<"Access-Control-Allow-Origin", "*">>,
                  <<"Access-Control-Allow-Methods", "GET, POST, PUT, DELETE, OPTIONS">>,
                  <<"Access-Control-Allow-Headers", "*">>,
                  <<"Access-Control-Max-Age", "86400">> >>] >>
    /\ calls = <<>>
    /\ fetchState = "none"

\* C2 witness: an OPTIONS request for "/" with a body has been answered 204.
C2_Witness ==
  /\ pc = "responded"
  /\ Req.method = "OPTIONS"
  /\ Req.url.form = "origin"
  /\ ReqPath = "/"
  /\ Req.body # <<>>
  /\ response[1].status = 204

\* C3: a request that is not OPTIONS and whose path is "/" or "/index.html"
\* is answered 200 with Content-Type text/html; charset=utf-8 and no outbound
\* call is made; a request that is not OPTIONS and has another path takes the
\* forward branch (an outbound call is made for it).
C3_LandingPage ==
  /\ (Handling /\ Req.method # "OPTIONS" /\ ReqPath \in {"/", "/index.html"}) =>
       /\ pc = "responded"
       /\ response[1].status = 200
       /\ HeadersGet(response[1].headers, "Content-Type") = << "text/html; charset=utf-8" >>
       /\ calls = <<>>
       /\ fetchState = "none"
  /\ ForwardedRequest => (calls # <<>> /\ fetchState # "none")

\* C3 witness: a POST of a body to /v1/../index.html?limit=1 has been answered
\* with the landing page.
C3_Witness ==
  /\ pc = "responded"
  /\ Req.method = "POST"
  /\ Req.url.segs = << "v1", "..", "index.html" >>
  /\ Req.url.query = "limit=1"
  /\ Req.body # <<>>
  /\ response[1].status = 200
  /\ calls = <<>>

\* C4: for a forwarded request exactly one outbound call is made, before and
\* after fetch settles and whatever came before, and its target is the
\* upstream base, the path, and "?" with the query when the query is not empty.
C4_OneCallToTarget ==
  ForwardedRequest =>
    /\ Len(calls) = 1
    /\ calls[1].target =
         "https://api.groq.com" \o ReqPath
           \o (IF Req.url.query # "" THEN "?" \o Req.url.query ELSE "")

\* C4 witness: the second of two GET requests for the same target has its own
\* outbound call, and fetch has already failed for it without a second call.
C4_Witness ==
  /\ pc = "responded"
  /\ handled = 2
  /\ repeated
  /\ Req.method = "GET"
  /\ Req.url.hasQuery /\ Req.url.query = ""
  /\ fetchError # <<>>
  /\ Len(calls) = 1
  /\ calls[1].target = "https://api.groq.com/v1/models"

\* C5: the outbound headers of a forwarded request hold no Host header, hold
\* for every other name the value the inbound headers hold for it, and hold
\* no name the inbound headers do not hold.
C5_HeadersCopied ==
  (ForwardedRequest /\ calls # <<>>) =>
    /\ ~HeadersHas(calls[1].headers, "Host")
    /\ \A n \in AllNames \ {"host"} :
         HeadersGet(calls[1].headers, n) = HeadersGet(Req.headers, n)

\* C6: the outbound request of a forwarded request has the inbound method;
\* for GET and HEAD it has no body, even when the inbound request has one;
\* for any other method its body is the inbound body.
C6_MethodAndBody ==
  (ForwardedRequest /\ calls # <<>>) =>
    /\ calls[1].method = Req.method
    /\ Req.method \in {"GET", "HEAD"} => calls[1].body = <<>>
    /\ Req.method \notin {"GET", "HEAD"} => calls[1].body = Req.body

\* C6 witness: a HEAD request with a body is forwarded without it.
C6_Witness ==
  /\ pc = "awaiting"
  /\ Req.method = "HEAD"
  /\ Req.body # <<>>
  /\ calls[1].method = "HEAD"
  /\ calls[1].body = <<>>

\* The response of the error branch: 500, text/plain, any origin allowed,
\* and a body "Proxy Error: " followed by msg.
IsProxyError(resp, msg) ==
  /\ resp.status = 500
  /\ resp.headers = << <<"Content-Type", "text/plain">>, <<"Access-Control-Allow-Origin", "*">> >>
  /\ resp.body = << "Proxy Error: " \o msg >>

\* The messages a response of the error branch can carry.
ErrorTexts ==
  { "Unknown error", "error sending request: connection refused",
    "The status provided is outside the range [200, 599]",
    "Response with null body status cannot have body" }

\* C7, first part: when the outbound call fails, the response is the 500 of
\* the error branch with the failure's message, or "Unknown error" when it
\* has none, and the call is not made again.
C7_FailureBecomes500 ==
  (pc = "responded" /\ fetchError # <<>>) =>
    /\ IsProxyError(response[1],
                    IF fetchError[1].message \in { <<>>, << "" >> } THEN "Unknown error"
                    ELSE fetchError[1].message[1])
    /\ Len(calls) = 1
    /\ fetchState = "failed"

PassedThrough ==
  /\ response[1].status = upstream[1].status
  /\ response[1].statusText = upstream[1].statusText
  /\ response[1].body = upstream[1].body
  /\ HeadersGet(response[1].headers, "Access-Control-Allow-Origin") = << "*" >>
  /\ HeadersGet(response[1].headers, "Access-Control-Allow-Methods")
       = << "GET, POST, PUT, DELETE, OPTIONS" >>
  /\ HeadersGet(response[1].headers, "Access-Control-Allow-Headers") = << "*" >>
  /\ \A n \in AllNames \ CorsNames :
       HeadersGet(response[1].headers, n) = HeadersGet(upstream[1].headers, n)

C9_EventuallyAnswered == (pc = "awaiting") ~> (pc = "responded")

\* C10: when the client disconnects while the outbound call is pending or
\* its body is streaming, the call is cancelled.
C10_CancelledOnDisconnect ==
  [][(~clientGone /\ clientGone' /\ fetchState \in {"pending", "streaming"})
       => fetchState' = "cancelled"]_vars

====
